---- MODULE Spec2Model ----
(***************************************************************************)
(* The headlines application (native build): the UI thread (Headlines,     *)
(* driven by eframe's update() calls), the fetch worker thread spawned by  *)
(* init()/setup(), the UI-to-worker sync_channel(1) and the worker-to-UI   *)
(* channel().  Two revisions of the program are in the source tree:        *)
(*   "new"  src/src/headlines.rs           (Msg::Refresh(Country), init)   *)
(*   "old"  src/headlines/src/headlines.rs (Msg::Refresh, setup)           *)
(* rev selects the revision; it never changes within a behaviour.          *)
(***************************************************************************)
EXTENDS Integers, Sequences, FiniteSets, TLC

VARIABLES
    rev,                  \* revision of the program that is running
    phase,                \* "new": after Headlines::new(); "running": after init()
    has_storage,          \* cc.storage is Some(..)
    stored,               \* the storage: the string under each key (<<>>: no value)
    articles,             \* Headlines.articles
    config,               \* Headlines.config
    api_key_initialized,  \* Headlines.api_key_initialized
    news_rx,              \* Headlines.news_rx is Some(..)
    app_tx,               \* Headlines.app_tx is Some(..)
    ui_pc,                \* "idle": between two update() calls; "sending": inside tx.send
    ui_msg,               \* the message of the send the UI thread is inside
    app_chan,             \* buffer of the UI-to-worker channel
    news_chan,            \* buffer of the worker-to-UI channel
    worker_pc,            \* position of the worker thread
    w_api_key,            \* api_key captured by the worker's closure
    w_country,            \* self.config.country captured by the worker's closure
    fetch,                \* arguments of the fetch_news call in progress
    w_remaining,          \* articles of the response not yet turned into cards
    sentLog,              \* history: the cards sent, in order, less those received before the last clear
    respLog,              \* history: the articles of the successful responses, trimmed like sentLog
    recvCount,            \* history: number of cards the UI received since the last clear
    refreshOwed,          \* history: refresh clicks not yet answered by a fetch
    lastKey,              \* history: key of the last APIKeySet received, else startup key
    apiKeySetRecvd,       \* history: the worker received an APIKeySet in this run
    initialFetch,         \* history: the worker began its startup fetch in this run
    fetched,              \* history: the worker began some fetch in this run
    savedConfig,          \* history: the configuration last saved (<<>>: none), and by whom
    events,               \* number of user inputs so far
    runs                  \* number of starts of the program so far

vars == <<rev, phase, has_storage, stored, savedConfig, articles, config, api_key_initialized,
          news_rx, app_tx, ui_pc, ui_msg, app_chan, news_chan, worker_pc,
          w_api_key, w_country, fetch, w_remaining, sentLog, respLog, recvCount,
          refreshOwed, lastKey, apiKeySetRecvd, initialFetch, fetched,
          events, runs>>

uiVars == <<articles, config, api_key_initialized, news_rx, app_tx, ui_pc, ui_msg>>
workerVars == <<worker_pc, w_api_key, w_country, fetch, w_remaining>>
histVars == <<sentLog, respLog, recvCount, refreshOwed, lastKey,
              apiKeySetRecvd, initialFetch, fetched>>

(***************************************************************************)
(* Bounds of the model.                                                    *)
(***************************************************************************)
MaxEvents == 3      \* user inputs (clicks, key presses) in a behaviour
MaxRuns == 2        \* starts of the program in a behaviour
MaxArticles == 2    \* articles in one response of the news API

Revisions == {"old", "new"}
ApiKeys == {"", "k1"}      \* contents of the API key text field

(***************************************************************************)
(* Program constants and types.                                            *)
(***************************************************************************)
\* (variant: init() reading another key than save() writes)
APP_NAME_OtherKey == "app"
APP_NAME == "headlines"

\* (variant: sync_channel(2))
AppChanCap_Two == 1 + 1
AppChanCap == 1

NoCountry == "-"    \* the old revision has no country
Countries(r) == IF r = "new" THEN {"US", "FR"} ELSE {NoCountry}

HeadlinesConfig(r) ==
    [dark_mode : BOOLEAN, api_key : ApiKeys, country : Countries(r)]

HeadlinesConfigDefault(r) ==
    [dark_mode |-> TRUE, api_key |-> "",
     country |-> IF r = "new" THEN "FR" ELSE NoCountry]

\* Msg::APIKeySet(String) and Msg::Refresh(Country) (Msg::Refresh in the old
\* revision).  cfg_country and origin are history: the configuration's country
\* when the UI sent the message, and the widget that sent it.
APIKeySet(key, cfgCountry) ==
    [kind |-> "APIKeySet", arg |-> key, cfg_country |-> cfgCountry, origin |-> "config"]
Refresh(country, cfgCountry, from) ==
    [kind |-> "Refresh", arg |-> country, cfg_country |-> cfgCountry, origin |-> from]
NoMsg == [kind |-> "None", arg |-> "", cfg_country |-> NoCountry, origin |-> ""]

NoFetch == [api_key |-> "", country |-> NoCountry, trigger |-> "None",
            cfg_country |-> NoCountry, origin |-> ""]

(***************************************************************************)
(* The news API's response and the cards made of it.                       *)
(***************************************************************************)
\* The i-th article of a response: description() is an Option (<<>> is None).
Article(i) ==
    [title |-> i, description |-> IF i % 2 = 1 THEN <<"desc">> ELSE <<>>, url |-> i]

Response(n) == [i \in 1..n |-> Article(i)]

NewsCardData(article) ==
    [title |-> article.title,
     desc |-> IF article.description = <<>> THEN "..." ELSE article.description[1],
     url |-> article.url]

(***************************************************************************)
(* eframe::set_value / get_value: the configuration as RON text, here the  *)
(* sequence of its tokens.                                                 *)
(***************************************************************************)
BoolToStr(b) == IF b THEN "true" ELSE "false"

Serialize(r, c) ==
    IF r = "new"
    THEN <<"dark_mode", BoolToStr(c.dark_mode), "api_key", c.api_key,
           "country", c.country>>
    ELSE <<"dark_mode", BoolToStr(c.dark_mode), "api_key", c.api_key>>

WellFormed(r, s) ==
    /\ Len(s) = (IF r = "new" THEN 6 ELSE 4)
    /\ s[1] = "dark_mode" /\ s[2] \in {"true", "false"}
    /\ s[3] = "api_key"
    /\ r = "new" => (s[5] = "country" /\ s[6] \in {"US", "FR"})

\* ron::from_str(..).ok(), then unwrap_or_default(): a value that does not parse
\* (or no value) gives the default configuration.
Deserialize(r, s) ==
    IF WellFormed(r, s)
    THEN [dark_mode |-> (s[2] = "true"), api_key |-> s[4],
          country |-> IF r = "new" THEN s[6] ELSE NoCountry]
    ELSE HeadlinesConfigDefault(r)

StorageKeys == {"headlines", "app"}
EmptyStorage == [k \in StorageKeys |-> <<>>]

\* eframe::get_value(storage, APP_NAME).unwrap_or_default() in init()/setup()
LoadConfig(r) == Deserialize(r, stored[APP_NAME])

\* eframe::set_value(storage, "headlines", &self.config) in save()
SaveConfig(r, c) == [stored EXCEPT !["headlines"] = Serialize(r, c)]

(***************************************************************************)
(* Initial state: Headlines::new(), before init()/setup().  The storage    *)
(* holds nothing or what an earlier run saved.                             *)
(***************************************************************************)
NewUi(r) ==
    /\ articles = <<>>
    /\ config = HeadlinesConfigDefault(r)
    /\ api_key_initialized = FALSE
    /\ news_rx = FALSE
    /\ app_tx = FALSE
    /\ ui_pc = "idle"
    /\ ui_msg = NoMsg

NoWorker ==
    /\ worker_pc = "none"
    /\ w_api_key = ""
    /\ w_country = NoCountry
    /\ fetch = NoFetch
    /\ w_remaining = <<>>

NoHistory ==
    /\ sentLog = <<>>
    /\ respLog = <<>>
    /\ recvCount = 0
    /\ refreshOwed = 0
    /\ lastKey = ""
    /\ apiKeySetRecvd = FALSE
    /\ initialFetch = FALSE
    /\ fetched = FALSE

Init ==
    /\ rev \in Revisions
    /\ phase = "new"
    /\ has_storage \in BOOLEAN
    /\ \/ /\ stored = EmptyStorage
          /\ savedConfig = <<>>
       \/ /\ has_storage
          /\ \E c \in HeadlinesConfig(rev) :
                /\ stored = [EmptyStorage EXCEPT !["headlines"] = Serialize(rev, c)]
                /\ savedConfig = <<[config |-> c, by |-> "earlier run"]>>
    /\ NewUi(rev)
    /\ app_chan = <<>>
    /\ news_chan = <<>>
    /\ NoWorker
    /\ NoHistory
    /\ events = 0
    /\ runs = 0

(***************************************************************************)
(* Headlines::init (new revision) / App::setup (old revision): load the    *)
(* configuration, create both channels, spawn the worker.                  *)
(***************************************************************************)
HeadlinesInit ==
    /\ phase = "new"
    /\ runs < MaxRuns
    /\ config' = (IF has_storage THEN LoadConfig(rev) ELSE config)
    /\ api_key_initialized' =
          (IF has_storage THEN config'.api_key # "" ELSE api_key_initialized)
    /\ news_rx' = TRUE
    /\ app_tx' = TRUE
    /\ app_chan' = <<>>
    /\ news_chan' = <<>>
    /\ worker_pc' = "start"
    /\ w_api_key' = config'.api_key
    /\ w_country' = config'.country
    /\ lastKey' = config'.api_key
    /\ phase' = "running"
    /\ runs' = runs + 1
    /\ UNCHANGED <<rev, has_storage, stored, savedConfig, articles, ui_pc, ui_msg, fetch,
                   w_remaining, sentLog, respLog, recvCount, refreshOwed,
                   apiKeySetRecvd, initialFetch, fetched, events>>

(***************************************************************************)
(* The worker thread: the closure given to thread::spawn.                  *)
(***************************************************************************)
\* Where the worker goes when the fetch_news call in progress returns: the old
\* revision's loop is in the else branch of the startup test, so its thread
\* ends after the startup fetch.
AfterFetch ==
    IF rev = "old" /\ fetch.trigger = "startup" THEN "exited" ELSE "recv"

\* fetch_news returns: the worker goes on, and if its thread ends, app_rx is
\* dropped with whatever the channel still buffers.
FetchReturns ==
    /\ worker_pc' = AfterFetch
    /\ fetch' = NoFetch
    /\ w_remaining' = <<>>
    /\ app_chan' = (IF AfterFetch = "exited" THEN <<>> ELSE app_chan)

\* if !api_key.is_empty() { fetch_news(&api_key, self.config.country, ..) }
\* (variant: the startup fetch without the test of the key)
StartupFetch_Always == TRUE
StartupFetch == w_api_key # ""

WorkerStart ==
    /\ worker_pc = "start"
    /\ IF StartupFetch
       THEN /\ worker_pc' = "fetching"
            /\ fetch' = [api_key |-> w_api_key, country |-> w_country,
                         trigger |-> "startup", cfg_country |-> w_country,
                         origin |-> "startup"]
            /\ initialFetch' = TRUE
            /\ fetched' = TRUE
       ELSE /\ worker_pc' = "recv"
            /\ UNCHANGED <<fetch, initialFetch, fetched>>
    /\ UNCHANGED <<rev, phase, has_storage, stored, savedConfig, uiVars, app_chan, news_chan,
                   w_api_key, w_country, w_remaining, sentLog, respLog, recvCount,
                   refreshOwed, lastKey, apiKeySetRecvd, events, runs>>

\* The worker's thread is at app_rx.recv(): fetch_news is called inside the
\* match arm, so the next recv() comes after the fetch has returned.
\* (variant: a worker that receives while a fetch is in progress)
WorkerIdle_Any == worker_pc \in {"recv", "fetching", "sending"}
WorkerIdle == worker_pc = "recv"

\* match app_rx.recv(): the key of an APIKeySet is bound in its arm only, a
\* Refresh is fetched with the closure's api_key; an APIKeySet is fetched for
\* the closure's copy of self.config.country.
WorkerRecv ==
    /\ WorkerIdle
    /\ app_chan # <<>>
    /\ LET m == Head(app_chan) IN
         /\ app_chan' = Tail(app_chan)
         /\ worker_pc' = "fetching"
         /\ fetched' = TRUE
         /\ IF m.kind = "APIKeySet"
            THEN /\ fetch' = [api_key |-> m.arg, country |-> w_country,
                              trigger |-> "APIKeySet", cfg_country |-> m.cfg_country,
                              origin |-> m.origin]
                 /\ lastKey' = m.arg
                 /\ apiKeySetRecvd' = TRUE
                 /\ UNCHANGED refreshOwed
            ELSE /\ fetch' = [api_key |-> w_api_key, country |-> m.arg,
                              trigger |-> "Refresh", cfg_country |-> m.cfg_country,
                              origin |-> m.origin]
                 /\ refreshOwed' =
                       (IF m.origin = "refresh_btn" THEN refreshOwed - 1 ELSE refreshOwed)
                 /\ UNCHANGED <<lastKey, apiKeySetRecvd>>
    /\ UNCHANGED <<rev, phase, has_storage, stored, savedConfig, uiVars, news_chan, w_api_key,
                   w_country, w_remaining, sentLog, respLog, recvCount,
                   initialFetch, events, runs>>

\* fetch_news: NewsAPI::new(api_key).country(country).fetch() returns Err.
FetchErr ==
    /\ worker_pc = "fetching"
    /\ FetchReturns
    /\ UNCHANGED <<rev, phase, has_storage, stored, savedConfig, uiVars, news_chan, w_api_key,
                   w_country, histVars, events, runs>>

\* fetch_news: the fetch returns Ok(response) with n articles.
FetchOk(n) ==
    /\ worker_pc = "fetching"
    /\ respLog' = respLog \o Response(n)
    /\ IF n = 0
       THEN FetchReturns
       ELSE /\ worker_pc' = "sending"
            /\ w_remaining' = Response(n)
            /\ UNCHANGED <<fetch, app_chan>>
    /\ UNCHANGED <<rev, phase, has_storage, stored, savedConfig, uiVars, news_chan, w_api_key,
                   w_country, sentLog, recvCount, refreshOwed, lastKey,
                   apiKeySetRecvd, initialFetch, fetched, events, runs>>

\* generate_news_card_data: one turn of the loop over response.articles().
SendCard ==
    /\ worker_pc = "sending"
    /\ LET news == NewsCardData(Head(w_remaining)) IN
         /\ news_chan' = Append(news_chan, news)
         /\ sentLog' = Append(sentLog, news)
    /\ IF Tail(w_remaining) = <<>>
       THEN FetchReturns
       ELSE /\ w_remaining' = Tail(w_remaining)
            /\ UNCHANGED <<worker_pc, fetch, app_chan>>
    /\ UNCHANGED <<rev, phase, has_storage, stored, savedConfig, uiVars, w_api_key, w_country,
                   respLog, recvCount, refreshOwed, lastKey,
                   apiKeySetRecvd, initialFetch, fetched, events, runs>>

(***************************************************************************)
(* The UI thread: one action per update() call, by the input of the frame. *)
(***************************************************************************)
UiReady == phase = "running" /\ ui_pc = "idle"

\* app_rx is dropped when the worker's thread has ended.
Disconnected == worker_pc = "exited"

\* tx.send(m) on the sync_channel: returns at once when the buffer has room,
\* blocks while it is full, fails when the receiver is gone (logged by the old
\* revision, a panic through expect in the new one).
Send(m) ==
    IF Disconnected
    THEN /\ app_chan' = app_chan
         /\ ui_pc' = (IF rev = "new" THEN "panicked" ELSE "idle")
         /\ ui_msg' = NoMsg
    ELSE IF Len(app_chan) < AppChanCap
    THEN /\ app_chan' = Append(app_chan, m)
         /\ ui_pc' = "idle"
         /\ ui_msg' = NoMsg
    ELSE /\ app_chan' = app_chan
         /\ ui_pc' = "sending"
         /\ ui_msg' = m

\* The blocked tx.send returns: the worker made room, or dropped app_rx.
SendReturns ==
    /\ phase = "running"
    /\ ui_pc = "sending"
    /\ Disconnected \/ Len(app_chan) < AppChanCap
    /\ Send(ui_msg)
    /\ UNCHANGED <<rev, phase, has_storage, stored, savedConfig, articles, config,
                   api_key_initialized, news_rx, app_tx, news_chan, workerVars,
                   histVars, events, runs>>

\* preload_articles: rx.try_recv() and push.
Drop(s, n) == SubSeq(s, n + 1, Len(s))

\* The number of cards one preload_articles call takes from the channel:
\* rx.try_recv() once, when news_rx is Some.
\* (variant: a loop that receives until the channel is empty)
TryRecv_Drain == IF news_rx THEN Len(news_chan) ELSE 0
TryRecv == IF news_rx /\ news_chan # <<>> THEN 1 ELSE 0

\* (variant: the received card inserted at the front of the list)
Preloaded_Front == SubSeq(news_chan, 1, TryRecv) \o articles
Preloaded == articles \o SubSeq(news_chan, 1, TryRecv)
Received == recvCount + TryRecv
Preload ==
    /\ news_chan' = Drop(news_chan, TryRecv)
    /\ recvCount' = Received
    /\ UNCHANGED <<sentLog, respLog>>

\* preload_articles followed by self.articles.clear()
PreloadAndClear ==
    /\ news_chan' = Drop(news_chan, TryRecv)
    /\ articles' = <<>>
    /\ recvCount' = 0
    /\ sentLog' = Drop(sentLog, Received)
    /\ respLog' = Drop(respLog, Received)

\* update() in the main view, no button clicked.
UpdateMain ==
    /\ UiReady
    /\ api_key_initialized
    /\ Preload
    /\ articles' = Preloaded
    /\ UNCHANGED <<rev, phase, has_storage, stored, savedConfig, config, api_key_initialized,
                   news_rx, app_tx, ui_pc, ui_msg, app_chan, workerVars,
                   refreshOwed, lastKey, apiKeySetRecvd, initialFetch, fetched,
                   events, runs>>

\* update() in the main view, refresh_btn.clicked().
ClickRefresh ==
    /\ UiReady
    /\ api_key_initialized
    /\ events < MaxEvents
    /\ events' = events + 1
    /\ IF app_tx
       THEN /\ PreloadAndClear
            /\ refreshOwed' = refreshOwed + 1
            /\ Send(Refresh(config.country, config.country, "refresh_btn"))
       ELSE /\ Preload
            /\ articles' = Preloaded
            /\ UNCHANGED <<refreshOwed, app_chan, ui_pc, ui_msg>>
    /\ UNCHANGED <<rev, phase, has_storage, stored, savedConfig, config, api_key_initialized,
                   news_rx, app_tx, workerVars, lastKey, apiKeySetRecvd,
                   initialFetch, fetched, runs>>

\* self.config.dark_mode = !self.config.dark_mode
\* (variant: the toggle also resetting the API key)
ThemeToggled_ResetsKey(c) == [c EXCEPT !.dark_mode = ~c.dark_mode, !.api_key = ""]
ThemeToggled(c) == [c EXCEPT !.dark_mode = ~c.dark_mode]

\* update() in the main view, theme_btn.clicked().
ClickTheme ==
    /\ UiReady
    /\ api_key_initialized
    /\ events < MaxEvents
    /\ events' = events + 1
    /\ Preload
    /\ articles' = Preloaded
    /\ config' = ThemeToggled(config)
    /\ UNCHANGED <<rev, phase, has_storage, stored, savedConfig, api_key_initialized, news_rx,
                   app_tx, ui_pc, ui_msg, app_chan, workerVars,
                   refreshOwed, lastKey, apiKeySetRecvd, initialFetch,
                   fetched, runs>>

\* update() in the main view, country_btn.clicked() (new revision only).
\* (variant: the match setting US in both arms)
OtherCountry_Stuck(c) == "US"
OtherCountry(c) == IF c = "US" THEN "FR" ELSE "US"
ClickCountry ==
    /\ UiReady
    /\ rev = "new"
    /\ api_key_initialized
    /\ events < MaxEvents
    /\ events' = events + 1
    /\ LET country == OtherCountry(config.country) IN
         /\ config' = [config EXCEPT !.country = country]
         /\ IF app_tx
            THEN /\ PreloadAndClear
                 /\ Send(Refresh(country, country, "country_btn"))
            ELSE /\ Preload
                 /\ articles' = Preloaded
                 /\ UNCHANGED <<app_chan, ui_pc, ui_msg>>
    /\ UNCHANGED <<rev, phase, has_storage, stored, savedConfig, api_key_initialized, news_rx,
                   app_tx, workerVars, refreshOwed, lastKey, apiKeySetRecvd,
                   initialFetch, fetched, runs>>

\* update() in the main view, settings_btn.clicked() (new revision only).
ClickSettings ==
    /\ UiReady
    /\ rev = "new"
    /\ api_key_initialized
    /\ events < MaxEvents
    /\ events' = events + 1
    /\ Preload
    /\ articles' = Preloaded
    /\ api_key_initialized' = ~api_key_initialized
    /\ UNCHANGED <<rev, phase, has_storage, stored, savedConfig, config, news_rx, app_tx, ui_pc,
                   ui_msg, app_chan, workerVars,
                   refreshOwed, lastKey, apiKeySetRecvd, initialFetch, fetched, runs>>

\* update() in the main view, close_btn.clicked(): the window closes, run_native
\* returns and the process ends with its worker thread; the next start begins
\* with Headlines::new() and the same storage.
ClickClose ==
    /\ UiReady
    /\ api_key_initialized
    /\ events < MaxEvents
    /\ events' = events + 1
    /\ phase' = "new"
    /\ articles' = <<>>
    /\ config' = HeadlinesConfigDefault(rev)
    /\ api_key_initialized' = FALSE
    /\ news_rx' = FALSE
    /\ app_tx' = FALSE
    /\ ui_pc' = "idle"
    /\ ui_msg' = NoMsg
    /\ app_chan' = <<>>
    /\ news_chan' = <<>>
    /\ worker_pc' = "none"
    /\ w_api_key' = ""
    /\ w_country' = NoCountry
    /\ fetch' = NoFetch
    /\ w_remaining' = <<>>
    /\ sentLog' = <<>>
    /\ respLog' = <<>>
    /\ recvCount' = 0
    /\ refreshOwed' = 0
    /\ lastKey' = ""
    /\ apiKeySetRecvd' = FALSE
    /\ initialFetch' = FALSE
    /\ fetched' = FALSE
    /\ UNCHANGED <<rev, has_storage, stored, savedConfig, runs>>

\* update() in the configuration window: the text field is edited.
EditApiKey(key) ==
    /\ UiReady
    /\ ~api_key_initialized
    /\ events < MaxEvents
    /\ events' = events + 1
    /\ key # config.api_key
    /\ config' = [config EXCEPT !.api_key = key]
    /\ UNCHANGED <<rev, phase, has_storage, stored, savedConfig, articles, api_key_initialized,
                   news_rx, app_tx, ui_pc, ui_msg, app_chan, news_chan, workerVars,
                   histVars, runs>>

\* update() in the configuration window: Enter pressed in the text field.
PressEnter ==
    /\ UiReady
    /\ ~api_key_initialized
    /\ events < MaxEvents
    /\ events' = events + 1
    /\ api_key_initialized' = TRUE
    /\ IF app_tx
       THEN Send(APIKeySet(config.api_key, config.country))
       ELSE UNCHANGED <<app_chan, ui_pc, ui_msg>>
    /\ UNCHANGED <<rev, phase, has_storage, stored, savedConfig, articles, config, news_rx,
                   app_tx, news_chan, workerVars, histVars, runs>>

\* App::save, called by eframe between two frames.  A save that no later start
\* can read is left out.
Save ==
    /\ UiReady
    /\ has_storage
    /\ runs < MaxRuns
    /\ stored' = SaveConfig(rev, config)
    /\ savedConfig' = <<[config |-> config, by |-> "save"]>>
    /\ UNCHANGED <<rev, phase, has_storage, uiVars, app_chan, news_chan,
                   workerVars, histVars, events, runs>>

Next ==
    \/ HeadlinesInit
    \/ WorkerStart
    \/ WorkerRecv
    \/ FetchErr
    \/ \E n \in 0..MaxArticles : FetchOk(n)
    \/ SendCard
    \/ SendReturns
    \/ UpdateMain
    \/ ClickRefresh
    \/ ClickTheme
    \/ ClickCountry
    \/ ClickSettings
    \/ ClickClose
    \/ \E key \in ApiKeys : EditApiKey(key)
    \/ PressEnter
    \/ Save

Spec == Init /\ [][Next]_vars

\* update() ends with a repaint request, so eframe keeps calling it; the worker
\* thread keeps running, the HTTP call returns, and a send that can return does.
FairSpec ==
    /\ Spec
    /\ WF_vars(UpdateMain)
    /\ WF_vars(SendReturns)
    /\ WF_vars(WorkerStart)
    /\ WF_vars(WorkerRecv)
    /\ WF_vars(FetchErr \/ \E n \in 0..MaxArticles : FetchOk(n))
    /\ WF_vars(SendCard)

(***************************************************************************)
(* Claims.                                                                 *)
(***************************************************************************)
Busy == worker_pc \in {"fetching", "sending"}

\* C1: the render loop never blocks: the UI thread is never inside a send on
\* the UI-to-worker channel that waits for the worker, also when the worker is
\* inside a fetch and an earlier message is still buffered.
C1_UpdateNeverBlocks == ui_pc # "sending"

\* C2: one request per refresh: every click on the refresh button is answered
\* by exactly one fetch, so the clicks not yet answered are exactly the Refresh
\* messages of the button still on their way to the worker (buffered in the
\* channel or in the send in progress).
RefreshOnTheWay ==
    Cardinality({i \in 1..Len(app_chan) : app_chan[i].origin = "refresh_btn"})
      + (IF ui_pc = "sending" /\ ui_msg.origin = "refresh_btn" THEN 1 ELSE 0)
C2_OneFetchPerRefresh == refreshOwed = RefreshOnTheWay

\* C3: the results channel is bounded: the cards sent by the worker and not yet
\* received by the UI never exceed a fixed bound (here: one response's worth).
ResultsBound == MaxArticles
C3_ResultsChannelBounded == Len(news_chan) <= ResultsBound

\* C4: the UI-to-worker channel carries the three events and buffers at most
\* one message that the worker has not yet received.
C4_AtMostOneBuffered ==
    /\ Len(app_chan) <= 1
    /\ \A i \in 1..Len(app_chan) : app_chan[i].kind \in {"APIKeySet", "Refresh"}

\* C4 witness: one message is buffered while the worker is inside a fetch and a
\* further send of the UI is held back.
C4_Witness ==
    /\ Len(app_chan) = 1
    /\ Busy
    /\ ui_pc = "sending"
    /\ ui_msg.kind = "Refresh"

\* A step that is a start of the program: init()/setup().
Starts == phase = "new" /\ phase' = "running"

\* C5: preferences round-trip through local storage: a start with storage
\* loads the configuration that was last saved, equal in dark_mode, api_key and
\* country, and the default configuration (dark_mode true, empty api_key,
\* country FR) when nothing is stored under "headlines".
C5_Expected ==
    IF savedConfig = <<>>
    THEN [dark_mode |-> TRUE, api_key |-> "",
          country |-> IF rev = "new" THEN "FR" ELSE NoCountry]
    ELSE savedConfig[1].config
C5_PreferencesRoundTrip ==
    [][(Starts /\ has_storage) =>
          /\ config'.dark_mode = C5_Expected.dark_mode
          /\ config'.api_key = C5_Expected.api_key
          /\ config'.country = C5_Expected.country]_vars

\* C5 witness: the second run of the new revision has loaded a configuration
\* that save() stored in the first run and that differs from the default in
\* every field.
C5_Witness ==
    /\ rev = "new"
    /\ phase = "running"
    /\ runs = 2
    /\ savedConfig # <<>>
    /\ savedConfig[1].by = "save"
    /\ config = savedConfig[1].config
    /\ config = [dark_mode |-> FALSE, api_key |-> "k1", country |-> "US"]

\* C6: every fetch uses the API key most recently submitted in the
\* configuration window (the last APIKeySet the worker received), or the key
\* loaded at startup when none was submitted.
C6_FetchUsesSubmittedKey == Busy => fetch.api_key = lastKey

\* C7: every fetch is for the country the configuration held when the UI sent
\* the triggering event.
C7_FetchUsesSelectedCountry == Busy => fetch.country = fetch.cfg_country

\* C8: each article of a response becomes exactly one card (title, description
\* or "...", URL), and the article list and the results channel together are
\* the cards in the order sent: the list is the received ones, the channel the
\* rest, none lost, duplicated or reordered.
C8_CardOf(a) ==
    [title |-> a.title,
     desc |-> IF a.description = <<>> THEN "..." ELSE a.description[1],
     url |-> a.url]
C8_CardsInSendOrder ==
    /\ Len(respLog) = Len(sentLog) + Len(w_remaining)
    /\ \A i \in 1..Len(sentLog) : sentLog[i] = C8_CardOf(respLog[i])
    /\ w_remaining = Drop(respLog, Len(sentLog))
    /\ recvCount <= Len(sentLog)
    /\ articles = SubSeq(sentLog, 1, recvCount)
    /\ news_chan = Drop(sentLog, recvCount)

\* C8 witness: after a clear, the list holds two cards of a response in their
\* order, the second one of an article without description, and a further card
\* waits in the channel.
C8_Witness ==
    /\ events >= 1
    /\ Len(articles) = 2
    /\ articles[1].desc = "desc"
    /\ articles[2].desc = "..."
    /\ articles[1].title # articles[2].title
    /\ news_chan # <<>>

\* C9: at a start with storage api_key_initialized is true exactly when the
\* loaded key is non-empty; the worker makes its startup fetch exactly when
\* that key is non-empty, and does so without any user action; with an empty
\* key no fetch happens before an APIKeySet is received.
C9_StartupFetch ==
    /\ [][(Starts /\ has_storage) =>
             /\ api_key_initialized' = (config'.api_key # "")
             /\ w_api_key' = config'.api_key]_vars
    /\ [](worker_pc \notin {"none", "start"} => (initialFetch <=> w_api_key # ""))
    /\ []((w_api_key = "" /\ ~apiKeySetRecvd) => ~fetched)
    /\ []((phase = "running" /\ w_api_key = "" /\ events = 0) => ~api_key_initialized)
    /\ (worker_pc = "start" /\ w_api_key # "") ~> (initialFetch \/ phase = "new")

\* C9 witness: a start with a stored key, no user input yet, and the worker is
\* sending the cards of its startup fetch.
C9_Witness ==
    /\ has_storage
    /\ runs = 1
    /\ events = 0
    /\ w_api_key # ""
    /\ api_key_initialized
    /\ initialFetch
    /\ fetch.trigger = "startup"
    /\ worker_pc = "sending"

\* C10: every card sent is eventually in the article list, provided the main
\* view keeps being updated and no click clears the list (the n-th card sent
\* since the last clear becomes the n-th of the list, unless the list is
\* cleared, the configuration window is shown or the program is closed); and
\* one update() moves at most one card from the channel to the list.
MaxCards == (MaxEvents + 1) * MaxArticles
C10_EveryCardShown ==
    /\ \A n \in 1..MaxCards :
          (Len(sentLog) >= n) ~>
             \/ recvCount >= n /\ Len(articles) >= n /\ articles[n] = sentLog[n]
             \/ Len(sentLog) < n
             \/ ~api_key_initialized
             \/ phase = "new"
    /\ [][(phase = "running" /\ phase' = "running") =>
             /\ Len(news_chan') >= Len(news_chan) - 1
             /\ Len(articles') <= Len(articles) + 1]_vars

\* C10 witness: the last card of a response has reached the list through
\* update() calls, the channel is drained.
C10_Witness ==
    /\ phase = "running"
    /\ api_key_initialized
    /\ Len(sentLog) = MaxArticles
    /\ recvCount = MaxArticles
    /\ articles = sentLog
    /\ news_chan = <<>>

\* A step within one run of the program.
Running == phase = "running" /\ phase' = "running"

\* The list after an update() in which no handler touched it: as it was, or
\* with the one card preload_articles received.
ListAsPreloaded ==
    \/ articles' = articles /\ news_chan' = news_chan
    \/ /\ news_chan # <<>>
       /\ articles' = Append(articles, Head(news_chan))
       /\ news_chan' = Tail(news_chan)

\* No message leaves the UI thread in the step.
NothingSent == app_chan' = app_chan /\ ui_pc' = ui_pc /\ ui_msg' = ui_msg

\* C11: the country is always US or FR; a click on the country button changes
\* it to the other one (so two clicks restore it), stores it in the
\* configuration, clears the article list and sends exactly one Refresh that
\* carries the new country.
C11_Other(c) == IF c = "US" THEN "FR" ELSE "US"
C11_CountryClick ==
    /\ phase = "running"
    /\ ui_pc = "idle"
    /\ \/ /\ Len(app_chan') = Len(app_chan) + 1
          /\ app_chan'[Len(app_chan')].origin = "country_btn"
       \/ /\ ui_pc' = "sending"
          /\ ui_msg'.origin = "country_btn"
C11_OneRefreshSent ==
    \/ /\ Len(app_chan') = Len(app_chan) + 1
       /\ SubSeq(app_chan', 1, Len(app_chan)) = app_chan
       /\ app_chan'[Len(app_chan')].kind = "Refresh"
       /\ app_chan'[Len(app_chan')].arg = config'.country
       /\ ui_pc' = "idle"
    \/ /\ app_chan' = app_chan
       /\ ui_pc' = "sending"
       /\ ui_msg'.kind = "Refresh"
       /\ ui_msg'.arg = config'.country
C11_CountryToggle ==
    /\ [](rev = "new" => config.country \in {"US", "FR"})
    /\ [][C11_CountryClick => config'.country # config.country]_vars
    /\ [][(Running /\ config'.country # config.country) =>
             /\ config'.country = C11_Other(config.country)
             /\ config'.dark_mode = config.dark_mode
             /\ config'.api_key = config.api_key
             /\ articles' = <<>>
             /\ C11_OneRefreshSent]_vars

\* C11 witness: two clicks on the country button: the Refresh of the first is
\* buffered, the Refresh of the second (in the send in progress) carries the
\* other country, which is the configuration's country again; the list is empty.
C11_Witness ==
    /\ rev = "new"
    /\ Len(app_chan) = 1
    /\ app_chan[1].origin = "country_btn"
    /\ ui_pc = "sending"
    /\ ui_msg.origin = "country_btn"
    /\ ui_msg.arg # app_chan[1].arg
    /\ config.country = ui_msg.arg
    /\ articles = <<>>

\* C12: a click on the theme button only flips dark_mode: the API key, the
\* country and api_key_initialized stay, no message is sent, and the article
\* list is what the update() made of it without the click; a click on the
\* settings button only flips api_key_initialized, the configuration stays,
\* no message is sent and the list is likewise untouched by the click.
C12_ThemeAndSettingsFrame ==
    /\ [][(Running /\ config'.dark_mode # config.dark_mode) =>
             /\ config'.api_key = config.api_key
             /\ config'.country = config.country
             /\ api_key_initialized' = api_key_initialized
             /\ NothingSent
             /\ ListAsPreloaded]_vars
    /\ [][(Running /\ api_key_initialized /\ ~api_key_initialized') =>
             /\ config' = config
             /\ NothingSent
             /\ ListAsPreloaded]_vars

\* C12 witness: in the first run, after a click on the theme button (dark_mode
\* differs from the loaded one) and a click on the settings button (the
\* configuration window is shown again), the list still holds cards and the
\* loaded key is still in the configuration.
C12_Witness ==
    /\ rev = "new"
    /\ runs = 1
    /\ phase = "running"
    /\ savedConfig # <<>>
    /\ savedConfig[1].by = "earlier run"
    /\ config.dark_mode # savedConfig[1].config.dark_mode
    /\ config.api_key = savedConfig[1].config.api_key
    /\ config.api_key # ""
    /\ ~api_key_initialized
    /\ articles # <<>>
    /\ app_chan = <<>>

\* C14: a send of the UI never finds the channel disconnected: whenever the UI
\* holds app_tx and can send, the worker's receiving end is alive.
C14_ReceiverAlive ==
    (phase = "running" /\ app_tx /\ ui_pc \in {"idle", "sending"}) => ~Disconnected

\* C15: a failed fetch is contained: the step in which fetch_news returns
\* without a response sends no card, leaves the article list and the
\* configuration as they are, and takes the worker back to app_rx.recv().
C15_FetchFailed ==
    Running /\ worker_pc = "fetching" /\ worker_pc' # "fetching" /\ respLog' = respLog
C15_FailedFetchContained ==
    [][C15_FetchFailed =>
          /\ news_chan' = news_chan
          /\ sentLog' = sentLog
          /\ articles' = articles
          /\ config' = config
          /\ worker_pc' = "recv"]_vars

\* C13: the article list holds cards of at most one fetch: it is the start of
\* one response, each card once, in order; no card of an earlier fetch is in
\* it after a clear and no set of cards is in it twice.
C13_ListOfOneFetch ==
    \A i \in 1..Len(articles) : articles[i] = NewsCardData(Article(i))

\* C16: the worker's fetches are serialized: a fetch begins only when none is
\* in progress, the messages are taken from the channel in the order the UI
\* sent them, each fetch being the one its message asks for, and the cards of
\* a fetch go to the results channel one after the other while that fetch is
\* in progress, so that the cards of two fetches are never interleaved.
C16_FetchOf(m) ==
    /\ fetch'.trigger = m.kind
    /\ fetch'.origin = m.origin
    /\ m.kind = "Refresh" => fetch'.country = m.arg
    /\ m.kind = "APIKeySet" => fetch'.api_key = m.arg
C16_Contiguous(cards) ==
    \A i \in 2..Len(cards) :
       cards[i].title = 1 \/ cards[i].title = cards[i - 1].title + 1
C16_FetchesSerialized ==
    /\ [](fetch # NoFetch <=> Busy)
    /\ [](w_remaining # <<>> <=> worker_pc = "sending")
    /\ [](C16_Contiguous(sentLog))
    /\ [][(Running /\ fetch' # fetch /\ fetch' # NoFetch) =>
             /\ fetch = NoFetch
             /\ worker_pc \in {"start", "recv"}
             /\ worker_pc = "recv" =>
                   /\ app_chan # <<>>
                   /\ C16_FetchOf(Head(app_chan))
                   /\ app_chan' = Tail(app_chan)]_vars
    /\ [][(Running /\ app_chan' # app_chan) =>
             \/ /\ app_chan # <<>>
                /\ app_chan' = Tail(app_chan)
                /\ fetch = NoFetch
                /\ fetch' # NoFetch
             \/ app_chan' = <<>> /\ worker_pc' = "exited"
             \/ /\ Len(app_chan') = Len(app_chan) + 1
                /\ SubSeq(app_chan', 1, Len(app_chan)) = app_chan
                /\ ui_pc = "sending" => app_chan'[Len(app_chan')] = ui_msg]_vars
    /\ [][(Running /\ Len(sentLog') > Len(sentLog)) =>
             /\ worker_pc = "sending"
             /\ sentLog' = Append(sentLog, NewsCardData(Head(w_remaining)))
             /\ news_chan' = Append(news_chan, NewsCardData(Head(w_remaining)))
             /\ worker_pc' = "sending" => (fetch' = fetch /\ w_remaining' = Tail(w_remaining))]_vars

\* C16 witness: while the cards of a refresh's fetch are being sent, a second
\* message waits in the buffer and a third in the send in progress.
C16_Witness ==
    /\ worker_pc = "sending"
    /\ fetch.origin = "refresh_btn"
    /\ news_chan # <<>>
    /\ Len(app_chan) = 1
    /\ ui_pc = "sending"

====
